---- MODULE Spec2Model ----
(***************************************************************************)
(* Model of the gemini-search skill: GeminiSearchSkill (src/index.js) on   *)
(* top of GeminiSearch (src/search.js).  One state machine: the skill      *)
(* object, its search engine, and the execute() invocations in flight.     *)
(* An invocation is an async function: every action below is the code that *)
(* runs between two suspension points (await fetch, await response.text(), *)
(* await response.json(), await _delay, await initialize).                 *)
(*                                                                         *)
(* Time is kept by the pending timers (setTimeout): each in-flight attempt *)
(* owns the abort timer of its AbortController, each retry pause owns the  *)
(* _delay timer.  AdvanceTime lets time pass up to the next due timer.     *)
(***************************************************************************)
EXTENDS Integers, Sequences, FiniteSets, TLC

\* ------------------------------------------------------------------ bounds
\* How many execute() invocations may overlap on the one skill instance.
MaxConcurrent == 2

Slots == 1..MaxConcurrent

\* ------------------------------------------------------- program constants
DefaultTimeout == 30000
DefaultRetryAttempts == 3
DefaultRetryDelay == 1000
MaxQueryLen == 1000
MaxPromptLen == 2000
MinNumResults == 1
MaxNumResults == 100
DefaultNumResults == 10

DefaultModel == "gemini-2.5-flash-lite"

\* ------------------------------------------------------------ JS values
\* undefined / absent property
Undef == [t |-> "undef"]

\* a && b, a || b on the truthiness of strings modelled as "" = falsy
Truthy(s) == s # ""

\* -------------------------------------------------------------- URL
\* A URL text is modelled by what the WHATWG parser looks at: its scheme
\* ("" when the text has none), whether an authority follows it, and the
\* number of "/" characters the text ends with.
SpecialSchemes == {"http", "https", "ftp"}

\* new URL(u) does not throw
URLParses(u) ==
  /\ u.scheme # ""
  /\ (u.scheme \in SpecialSchemes => u.host)

\* url.protocol
URLProtocol(u) == u.scheme

\* ------------------------------------------------------------ options
\* An optional value: <<>> is undefined / null, <<v>> is the value v.
None == <<>>
Some(v) == <<v>>
IsSome(o) == o # <<>>
Get(o) == o[1]

\* ------------------------------------------------------------- errors
\* An error message is the sequence of its pieces, text pieces [s |-> ..]
\* and interpolated numbers [n |-> ..], in the order the template literal
\* or string of the source gives them.
S(x) == [s |-> x]
N(x) == [n |-> x]

\* new Error(message): name "Error", no code
NewError(message) == [name |-> "Error", message |-> message, code |-> ""]

\* Texts of the model that contain 'fetch failed', resp. 'network', as a
\* substring (String.prototype.includes is case sensitive).
TextsWithFetchFailed == {"fetch failed"}
TextsWithNetwork == {"network unreachable", "network error"}

\* message.includes(needle)
MessageIncludes(message, texts) ==
  \E i \in 1..Len(message) : "s" \in DOMAIN message[i] /\ message[i].s \in texts

\* What the runtime rejects with.
\* fetch() when the connection cannot be made or breaks (undici)
FetchFailedError == [name |-> "TypeError", message |-> <<S("fetch failed")>>, code |-> ""]
\* a socket level error that carries a code
ConnResetError == [name |-> "Error", message |-> <<S("socket hang up")>>, code |-> "ECONNRESET"]
\* the body stream of a response ends early (undici: TypeError: terminated)
TerminatedError == [name |-> "TypeError", message |-> <<S("terminated")>>, code |-> ""]
\* controller.abort() while fetch is pending
AbortError == [name |-> "AbortError", message |-> <<S("This operation was aborted")>>, code |-> ""]
\* response.json() on a body that is no JSON text; V8 quotes the start of
\* the offending text in the message, older engines do not.
JsonSyntaxError(quoted) ==
  [name |-> "SyntaxError",
   message |-> IF quoted = "" THEN <<S("Unexpected token in JSON at position 0")>>
               ELSE <<S("Unexpected token, \""), S(quoted), S("\" is not valid JSON")>>,
   code |-> ""]
\* data.choices where data is null
NullDataError ==
  [name |-> "TypeError",
   message |-> <<S("Cannot read properties of null (reading 'choices')")>>, code |-> ""]

\* a test for the word 'failed' alone, which the messages the pipeline
\* itself raises contain too
IsNetworkErrorLoose(error) ==
  \/ MessageIncludes(error.message, TextsWithFetchFailed
                                      \cup {"Authentication failed: Invalid API key",
                                            "API request failed with status "})
  \/ MessageIncludes(error.message, TextsWithNetwork)
  \/ error.code = "ECONNRESET"
  \/ error.code = "ETIMEDOUT"

\* search.js:192, the test that makes a caught error a retryable network error
IsNetworkError(error) ==
  \/ MessageIncludes(error.message, TextsWithFetchFailed)
  \/ MessageIncludes(error.message, TextsWithNetwork)
  \/ error.code = "ECONNRESET"
  \/ error.code = "ETIMEDOUT"

\* --------------------------------------------------------------- JSON
\* A text is the sequence of its lexical tokens.  A token that is a JSON
\* string literal is written as its content; the punctuation, null, true,
\* false and number tokens stand for themselves; any other token (a word of
\* prose, "fence" for a markdown code fence) is no JSON token.
StringLiterals == {"results", "summary", "title", "T", "Y", "oops"}
NumberLiterals == {"5"}

\* JS values: tagged records, one field name per tag.
JSUndefined == [t |-> "undef"]
JSNull == [t |-> "null"]
JSBool(b) == [t |-> "bool", b |-> b]
JSNumber(lit) == [t |-> "num", lit |-> lit]
JSString(toks) == [t |-> "str", s |-> toks]
JSArray(elems) == [t |-> "arr", elems |-> elems]
\* an object is the sequence of its <<key, value>> members in insertion order
JSObject(members) == [t |-> "obj", members |-> members]

ParseFail == [ok |-> FALSE, val |-> JSUndefined, rest |-> <<>>]
ParseOk(v, rest) == [ok |-> TRUE, val |-> v, rest |-> rest]

RECURSIVE ParseValue(_)
RECURSIVE ParseElements(_, _)
RECURSIVE ParseMembers(_, _)

\* one JSON value at the head of toks
ParseValue(toks) ==
  IF toks = <<>> THEN ParseFail
  ELSE LET h == Head(toks)
           r == Tail(toks)
       IN  IF h = "null" THEN ParseOk(JSNull, r)
           ELSE IF h = "true" THEN ParseOk(JSBool(TRUE), r)
           ELSE IF h = "false" THEN ParseOk(JSBool(FALSE), r)
           ELSE IF h \in NumberLiterals THEN ParseOk(JSNumber(h), r)
           ELSE IF h \in StringLiterals THEN ParseOk(JSString(<<h>>), r)
           ELSE IF h = "[" THEN
             IF r # <<>> /\ Head(r) = "]" THEN ParseOk(JSArray(<<>>), Tail(r))
             ELSE ParseElements(r, <<>>)
           ELSE IF h = "{" THEN
             IF r # <<>> /\ Head(r) = "}" THEN ParseOk(JSObject(<<>>), Tail(r))
             ELSE ParseMembers(r, <<>>)
           ELSE ParseFail

\* value ("," value)* "]"
ParseElements(toks, acc) ==
  LET v == ParseValue(toks)
  IN  IF ~v.ok \/ v.rest = <<>> THEN ParseFail
      ELSE IF Head(v.rest) = "]" THEN ParseOk(JSArray(Append(acc, v.val)), Tail(v.rest))
      ELSE IF Head(v.rest) = "," THEN ParseElements(Tail(v.rest), Append(acc, v.val))
      ELSE ParseFail

\* string ":" value ("," string ":" value)* "}"
ParseMembers(toks, acc) ==
  IF Len(toks) < 3 \/ Head(toks) \notin StringLiterals \/ toks[2] # ":" THEN ParseFail
  ELSE LET v == ParseValue(Tail(Tail(toks)))
           m == <<Head(toks), v.val>>
       IN  IF ~v.ok \/ v.rest = <<>> THEN ParseFail
           ELSE IF Head(v.rest) = "}" THEN ParseOk(JSObject(Append(acc, m)), Tail(v.rest))
           ELSE IF Head(v.rest) = "," THEN ParseMembers(Tail(v.rest), Append(acc, m))
           ELSE ParseFail

\* JSON.parse(text); text is an optional text: JSON.parse(undefined) parses
\* the text "undefined", which is no JSON.  ok = FALSE is the SyntaxError.
JSONParse(text) ==
  IF ~IsSome(text) THEN ParseFail
  ELSE LET p == ParseValue(Get(text))
       IN  IF p.ok /\ p.rest = <<>> THEN p ELSE ParseFail

\* obj[key] for a parsed value that is not null: the member's value, or
\* undefined (also for every primitive and for arrays, which have no such
\* property).  Of two members with one key the later wins.
GetProperty(v, key) ==
  IF v.t # "obj" THEN JSUndefined
  ELSE LET hits == {i \in 1..Len(v.members) : v.members[i][1] = key}
       IN  IF hits = {} THEN JSUndefined
           ELSE v.members[CHOOSE i \in hits : \A j \in hits : j <= i][2]

\* !v
Falsy(v) ==
  \/ v.t \in {"undef", "null"}
  \/ (v.t = "bool" /\ ~v.b)
  \/ (v.t = "num" /\ v.lit = "0")
  \/ (v.t = "str" /\ v.s = <<>>)

\* Array.isArray(v)
IsArray(v) == v.t = "arr"

\* ----------------------------------------------------------- parseInt
\* A number or string argument is the sequence of the characters of its
\* string form (parseInt converts its argument to a string first).
Digits == <<"0", "1", "2", "3", "4", "5", "6", "7", "8", "9">>
IsDigit(c) == \E i \in 1..10 : Digits[i] = c
DigitVal(c) == (CHOOSE i \in 1..10 : Digits[i] = c) - 1

NaN == [nan |-> TRUE, v |-> 0]
Num(v) == [nan |-> FALSE, v |-> v]

RECURSIVE SkipSpaces(_)
SkipSpaces(cs) == IF cs # <<>> /\ Head(cs) = " " THEN SkipSpaces(Tail(cs)) ELSE cs

\* the value of the longest prefix of decimal digits, acc so far
RECURSIVE DigitsValue(_, _)
DigitsValue(cs, acc) ==
  IF cs # <<>> /\ IsDigit(Head(cs)) THEN DigitsValue(Tail(cs), acc * 10 + DigitVal(Head(cs)))
  ELSE acc

\* parseInt(x) in radix 10: leading white space, an optional sign, then the
\* longest run of digits; NaN when there is no digit.
ParseInt(chars) ==
  LET t == SkipSpaces(chars)
      signed == t # <<>> /\ Head(t) \in {"-", "+"}
      body == IF signed THEN Tail(t) ELSE t
      mag == DigitsValue(body, 0)
  IN  IF body = <<>> \/ ~IsDigit(Head(body)) THEN NaN
      ELSE IF signed /\ Head(t) = "-" THEN Num(0 - mag)
      ELSE Num(mag)

\* String(n) for an integer n
RECURSIVE NatToChars(_)
NatToChars(n) ==
  IF n < 10 THEN <<Digits[n + 1]>>
  ELSE Append(NatToChars(n \div 10), Digits[(n % 10) + 1])

IntToChars(n) == IF n < 0 THEN <<"-">> \o NatToChars(0 - n) ELSE NatToChars(n)

Min(a, b) == IF a < b THEN a ELSE b
Max(a, b) == IF a > b THEN a ELSE b

\* 2^n
RECURSIVE Pow2(_)
Pow2(n) == IF n <= 0 THEN 1 ELSE 2 * Pow2(n - 1)

\* -------------------------------------------------- GeminiSearch (engine)
\* new GeminiSearch(baseUrl, apiKey, options): [error, obj], the thrown
\* error or the constructed object.  A base URL is a URL text (see above)
\* with a flag for the empty or missing text; an absent option is "" (model)
\* or 0 (timeout, retryAttempts, retryDelay), which || treats alike.
GeminiSearchNew(baseUrl, apiKey, options) ==
  IF baseUrl.empty THEN
    [error |-> Some(NewError(<<S("GEMINI_BASE_URL is required")>>)), obj |-> None]
  ELSE IF apiKey = "" THEN
    [error |-> Some(NewError(<<S("GEMINI_API_KEY is required")>>)), obj |-> None]
  ELSE IF ~URLParses(baseUrl) THEN
    [error |-> Some(NewError(<<S("Invalid GEMINI_BASE_URL format: "), S("Invalid URL")>>)),
     obj |-> None]
  ELSE IF URLProtocol(baseUrl) \notin {"http", "https"} THEN
    [error |-> Some(NewError(<<S("Invalid GEMINI_BASE_URL format: "),
                               S("Invalid protocol: must be http or https")>>)),
     obj |-> None]
  ELSE
    [error |-> None,
     obj |-> Some([baseUrl |-> [baseUrl EXCEPT !.slashes = IF @ > 0 THEN @ - 1 ELSE 0],
                   apiKey |-> apiKey,
                   model |-> IF Truthy(options.model) THEN options.model ELSE DefaultModel,
                   timeout |-> IF options.timeout # 0 THEN options.timeout ELSE DefaultTimeout,
                   retryAttempts |-> IF options.retryAttempts # 0 THEN options.retryAttempts
                                     ELSE DefaultRetryAttempts,
                   retryDelay |-> IF options.retryDelay # 0 THEN options.retryDelay
                                  ELSE DefaultRetryDelay])]

\* engine.setModel(model)
SetModel(engine, model) ==
  IF Truthy(model) THEN [engine EXCEPT !.model = model] ELSE engine

\* ------------------------------------------------------ an invocation
\* The state of one call of execute() (layer "skill") or of the engine's
\* search() / fetch() (layer "engine"): where it is suspended (pc), its locals
\* (command, params, attempt), its pending timer (timer = time left, -1 when
\* none is pending), and what an observer of the call sees: the outbound
\* requests (reqs), the delays asked of _delay (delays), the time that had
\* passed when each pause ended (gaps; elapsed is the time since the pending
\* timer was armed), what the backend did on each
\* attempt (events), what callGemini returned (returned: None before it
\* returns, then Some of the optional text), and the settled promise (result).
NoResult == [kind |-> "none", value |-> JSUndefined, error |-> None]

\* execute's params object.  model is "" when absent; query is undefined, a
\* number n, or a string of core characters with ws white space characters
\* around them; numResults is absent (None) or a value given by the
\* characters of its string form; json is the flag (absent means true); url
\* is a URL text; prompt is undefined, a string of len characters, or an
\* array of len elements.  timeRange only changes the wording of the
\* prompt and is left out.
NoQuery == [kind |-> "undefined", ws |-> 0, core |-> 0, n |-> 0]
NoUrl == [empty |-> TRUE, scheme |-> "", host |-> FALSE, slashes |-> 0]
NoPrompt == [kind |-> "undefined", len |-> 0]
NoParams ==
  [model |-> "", query |-> NoQuery, numResults |-> None, json |-> TRUE,
   url |-> NoUrl, prompt |-> NoPrompt]

IdleCall ==
  [pc |-> "idle", layer |-> "", command |-> "", params |-> NoParams, attempt |-> 0, num |-> 0,
   timer |-> -1, elapsed |-> 0, status |-> 0, statusText |-> "",
   reqs |-> <<>>, delays |-> <<>>, gaps |-> <<>>, events |-> <<>>,
   returned |-> None, result |-> NoResult]

\* an event: its kind, the HTTP status (0 when there is none), the status
\* text, and for a timeout the time since the request went out
Event(kind, status, text) == [kind |-> kind, status |-> status, text |-> text, after |-> 0]
TimeoutEvent(after) == [kind |-> "timeout", status |-> 0, text |-> "", after |-> after]
Observe(c, ev) == [c EXCEPT !.events = Append(@, ev)]

\* the promise of execute() rejects with error
Reject(c, error) ==
  [c EXCEPT !.pc = "done", !.timer = -1,
            !.result = [kind |-> "error", value |-> JSUndefined, error |-> Some(error)]]

\* the promise of execute() resolves with value
Resolve(c, value) ==
  [c EXCEPT !.pc = "done", !.timer = -1,
            !.result = [kind |-> "value", value |-> value, error |-> None]]

\* catch (error) of GeminiSearch.search / GeminiSearch.fetch: the error is
\* wrapped with the operation's name; execute's own catch rethrows it as is.
OperationPrefix(command) == IF command = "search" THEN "Search failed: " ELSE "Fetch failed: "

WrapAndThrow(c, error) ==
  Reject(c, NewError(<<S(OperationPrefix(c.command))>> \o error.message))

\* const delay = this.retryDelay * Math.pow(2, attempt - 1), as computed at
\* each of the four places that retry
\* search.js:145, HTTP 429
RateLimitDelay(engine, attempt) == engine.retryDelay * Pow2(attempt - 1)
\* search.js:154, HTTP 5xx
ServerErrorDelay(engine, attempt) == engine.retryDelay * Pow2(attempt - 1)
\* search.js:182, timeout
TimeoutDelay(engine, attempt) == engine.retryDelay * Pow2(attempt - 1)
NetworkErrorDelayLinear(engine, attempt) == engine.retryDelay * attempt
\* search.js:194, network error
NetworkErrorDelay(engine, attempt) == engine.retryDelay * Pow2(attempt - 1)

\* await this._delay(delay): the call pauses on a timer of delay ms
Sleep(c, delay) ==
  [c EXCEPT !.pc = "sleeping", !.timer = delay, !.elapsed = 0, !.delays = Append(@, delay)]

\* callGemini(messages, tools, responseFormat, attempt) up to await fetch:
\* the request goes out with the engine's model of this moment, the abort
\* timer is armed.
CallGemini(c, engine, attempt) ==
  [c EXCEPT !.pc = "fetching", !.attempt = attempt, !.timer = engine.timeout, !.elapsed = 0,
            !.reqs = Append(@, [attempt |-> attempt, model |-> engine.model,
                                target |-> engine.baseUrl, num |-> c.num,
                                tools |-> (c.command = "search"),
                                responseFormat |-> (c.command = "search" /\ c.params.json)])]

\* a catch block as it would run had the retry been awaited inside the try
\* (return await this.callGemini(...)): the network error that the last
\* attempt rethrows is caught again by the attempt before it, which retries
CatchBlockAwaited(c, engine, error) ==
  LET c0 == [c EXCEPT !.timer = -1]
  IN  IF error.name = "AbortError" THEN
        IF c0.attempt < engine.retryAttempts THEN Sleep(c0, TimeoutDelay(engine, c0.attempt))
        ELSE WrapAndThrow(c0, NewError(<<S("Request timeout after "), N(engine.timeout),
                                         S("ms and "), N(engine.retryAttempts),
                                         S(" attempts")>>))
      ELSE IF IsNetworkError(error) /\ c0.attempt < engine.retryAttempts
        THEN Sleep(c0, NetworkErrorDelay(engine, c0.attempt))
      ELSE IF IsNetworkError(error) /\ c0.attempt > 1
        THEN Sleep([c0 EXCEPT !.attempt = @ - 1], NetworkErrorDelay(engine, c0.attempt - 1))
      ELSE WrapAndThrow(c0, error)

\* a catch block that compares the attempt with <= after a timeout
CatchBlockOneMore(c, engine, error) ==
  LET c0 == [c EXCEPT !.timer = -1]
  IN  IF error.name = "AbortError" THEN
        IF c0.attempt <= engine.retryAttempts THEN Sleep(c0, TimeoutDelay(engine, c0.attempt))
        ELSE WrapAndThrow(c0, NewError(<<S("Request timeout after "), N(engine.timeout),
                                         S("ms and "), N(engine.retryAttempts),
                                         S(" attempts")>>))
      ELSE IF IsNetworkError(error) /\ c0.attempt < engine.retryAttempts
        THEN Sleep(c0, NetworkErrorDelay(engine, c0.attempt))
      ELSE WrapAndThrow(c0, error)

\* the catch block of callGemini (search.js:174-202), timer cleared
CatchBlock(c, engine, error) ==
  LET c0 == [c EXCEPT !.timer = -1]
  IN  IF error.name = "AbortError" THEN
        IF c0.attempt < engine.retryAttempts THEN Sleep(c0, TimeoutDelay(engine, c0.attempt))
        ELSE WrapAndThrow(c0, NewError(<<S("Request timeout after "), N(engine.timeout),
                                         S("ms and "), N(engine.retryAttempts),
                                         S(" attempts")>>))
      ELSE IF IsNetworkError(error) /\ c0.attempt < engine.retryAttempts
        THEN Sleep(c0, NetworkErrorDelay(engine, c0.attempt))
      ELSE WrapAndThrow(c0, error)

\* response.ok
ResponseOk(status) == status >= 200 /\ status <= 299

\* an error branch without the case for 429
HandleErrorStatusNoRateLimit(c, engine) ==
  IF c.status = 401 THEN
    CatchBlock(c, engine, NewError(<<S("Authentication failed: Invalid API key")>>))
  ELSE IF c.status >= 500 /\ c.attempt < engine.retryAttempts
    THEN Sleep(c, ServerErrorDelay(engine, c.attempt))
  ELSE CatchBlock(c, engine, NewError(<<S("API request failed with status "), N(c.status),
                                        S(": "), S(c.statusText)>>))

\* the !response.ok branch after await response.text() (search.js:133-161)
HandleErrorStatus(c, engine) ==
  IF c.status = 401 THEN
    CatchBlock(c, engine, NewError(<<S("Authentication failed: Invalid API key")>>))
  ELSE IF c.status = 429 THEN
    IF c.attempt < engine.retryAttempts THEN Sleep(c, RateLimitDelay(engine, c.attempt))
    ELSE CatchBlock(c, engine, NewError(<<S("Rate limit exceeded: Too many requests")>>))
  ELSE IF c.status >= 500 /\ c.attempt < engine.retryAttempts
    THEN Sleep(c, ServerErrorDelay(engine, c.attempt))
  ELSE CatchBlock(c, engine, NewError(<<S("API request failed with status "), N(c.status),
                                        S(": "), S(c.statusText)>>))

\* a response body as response.json() gives it: null (None) or an object
\* whose choices is absent or an array of choices; a choice has a message
\* or not, a message has a content or not.
ChoiceWith(content) == [message |-> Some([content |-> content])]
ChoiceNoMessage == [message |-> None]
DataWith(choices) == Some([choices |-> choices])

\* the text of the model as a JS value
TextValue(text) == IF IsSome(text) THEN JSString(Get(text)) ELSE JSUndefined

\* a decoder that takes whatever parses
DecodeSearchUnvalidated(text, json) ==
  IF ~json THEN TextValue(text)
  ELSE LET p == JSONParse(text)
       IN  IF ~p.ok \/ p.val.t = "null"
             THEN JSObject(<< <<"results", JSArray(<<>>)>>,
                              <<"summary", TextValue(text)>>,
                              <<"error", JSString(<<"JSON_PARSE_ERROR">>)>> >>)
           ELSE p.val

\* a decoder that rebuilds a valid answer from its two known fields
DecodeSearchRebuilt(text, json) ==
  IF ~json THEN TextValue(text)
  ELSE LET p == JSONParse(text)
           fallbackError == JSObject(<< <<"results", JSArray(<<>>)>>,
                                        <<"summary", TextValue(text)>>,
                                        <<"error", JSString(<<"JSON_PARSE_ERROR">>)>> >>)
       IN  IF ~p.ok THEN fallbackError
           ELSE IF p.val.t = "null" THEN fallbackError
           ELSE IF Falsy(GetProperty(p.val, "results")) \/ ~IsArray(GetProperty(p.val, "results"))
             THEN JSObject(<< <<"results", JSArray(<<>>)>>,
                              <<"summary", TextValue(text)>>,
                              <<"raw", p.val>> >>)
           ELSE JSObject(<< <<"results", GetProperty(p.val, "results")>>,
                            <<"summary", GetProperty(p.val, "summary")>> >>)

\* search.js:234-249, what search returns for the text callGemini returned
DecodeSearch(text, json) ==
  IF ~json THEN TextValue(text)
  ELSE LET p == JSONParse(text)
           fallbackError == JSObject(<< <<"results", JSArray(<<>>)>>,
                                        <<"summary", TextValue(text)>>,
                                        <<"error", JSString(<<"JSON_PARSE_ERROR">>)>> >>)
       IN  IF ~p.ok THEN fallbackError
           \* parsed.results of null throws a TypeError, caught by the same catch
           ELSE IF p.val.t = "null" THEN fallbackError
           ELSE IF Falsy(GetProperty(p.val, "results")) \/ ~IsArray(GetProperty(p.val, "results"))
             THEN JSObject(<< <<"results", JSArray(<<>>)>>,
                              <<"summary", TextValue(text)>>,
                              <<"raw", p.val>> >>)
           ELSE p.val

\* search.js:281-285, what fetch returns for the text callGemini returned
FetchResult(text) ==
  JSObject(<< <<"url", JSString(<<"url">>)>>,
              <<"content", TextValue(text)>>,
              <<"timestamp", JSString(<<"now">>)>> >>)

\* callGemini returned text: the rest of GeminiSearch.search / fetch and,
\* for a call through the skill, of the skill's search / fetch, which wrap
\* the value for the caller (index.js:144-151, 180-184).
Return(c, text) ==
  IF c.command = "search" THEN
    IF c.layer = "engine" THEN Resolve(c, DecodeSearch(text, c.params.json))
    ELSE Resolve(c, JSObject(<< <<"success", JSBool(TRUE)>>,
                                <<"command", JSString(<<"search">>)>>,
                                <<"query", JSString(<<"query">>)>>,
                                <<"numResults", JSNumber(c.num)>>,
                                <<"timeRange", JSNull>>,
                                <<"results", DecodeSearch(text, c.params.json)>> >>))
  ELSE
    IF c.layer = "engine" THEN Resolve(c, FetchResult(text))
    ELSE Resolve(c, JSObject(<< <<"success", JSBool(TRUE)>>,
                                <<"command", JSString(<<"fetch">>)>> >>
                             \o FetchResult(text).members))

\* search.js:164-173, after await response.json() gave data
HandleData(c, engine, data) ==
  IF ~IsSome(data) THEN CatchBlock(c, engine, NullDataError)
  ELSE IF \/ ~IsSome(Get(data).choices)
          \/ Get(Get(data).choices) = <<>>
          \/ ~IsSome(Get(Get(data).choices)[1].message)
    THEN CatchBlock(c, engine,
                    NewError(<<S("Invalid API response format: missing choices or message")>>))
  ELSE Return([c EXCEPT !.returned = Some(Get(Get(Get(data).choices)[1].message).content)],
              Get(Get(Get(data).choices)[1].message).content)

\* search.js:221
ValidatedNumResults(chars) ==
  LET p == ParseInt(chars)
  IN  Max(MinNumResults, Min(MaxNumResults, IF p.nan \/ p.v = 0 THEN DefaultNumResults ELSE p.v))

\* GeminiSearch.search(query, {numResults, timeRange, json}) up to await
\* callGemini; numResults is absent (None, the default applies) or a value
\* given by the characters of its string form
EngineSearch(c, engine, numResults) ==
  CallGemini([c EXCEPT !.num = ValidatedNumResults(
                                  IF IsSome(numResults) THEN Get(numResults).chars
                                  ELSE IntToChars(DefaultNumResults))],
             engine, 1)

\* GeminiSearch.fetch(url, prompt) up to await callGemini
EngineFetch(c, engine, url) ==
  IF ~URLParses(url) THEN WrapAndThrow(c, NewError(<<S("Invalid URL format: "), S("url")>>))
  ELSE CallGemini(c, engine, 1)

\* !query
QueryFalsy(q) ==
  \/ q.kind = "undefined"
  \/ (q.kind = "string" /\ q.ws + q.core = 0)
  \/ (q.kind = "number" /\ q.n = 0)

\* GeminiSearchSkill.search(params) (index.js:111-152)
SkillSearch(c, engine, params) ==
  LET chars == IF IsSome(params.numResults) THEN Get(params.numResults).chars
               ELSE IntToChars(DefaultNumResults)
      validatedNumResults == ParseInt(chars)
  IN  IF QueryFalsy(params.query) THEN
        Reject(c, NewError(<<S("Query parameter is required for search")>>))
      ELSE IF params.query.kind # "string" THEN
        Reject(c, NewError(<<S("Query must be a string")>>))
      ELSE IF params.query.core = 0 THEN
        Reject(c, NewError(<<S("Query cannot be empty")>>))
      ELSE IF params.query.core > MaxQueryLen THEN
        Reject(c, NewError(<<S("Query too long (max 1000 characters)")>>))
      ELSE IF \/ validatedNumResults.nan
              \/ validatedNumResults.v < MinNumResults
              \/ validatedNumResults.v > MaxNumResults THEN
        Reject(c, NewError(<<S("numResults must be a number between 1 and 100")>>))
      ELSE EngineSearch(c, engine, Some([kind |-> "number",
                                         chars |-> IntToChars(validatedNumResults.v)]))

\* GeminiSearchSkill.fetch(params) (index.js:158-185)
SkillFetch(c, engine, params) ==
  IF params.url.empty THEN
    Reject(c, NewError(<<S("URL parameter is required for fetch")>>))
  ELSE IF ~URLParses(params.url) THEN
    Reject(c, NewError(<<S("Invalid URL format: "), S("url")>>))
  ELSE IF params.prompt.kind = "string" /\ params.prompt.len > MaxPromptLen THEN
    Reject(c, NewError(<<S("Prompt too long (max 2000 characters)")>>))
  ELSE EngineFetch(c, engine, params.url)

\* ------------------------------------------------------- GeminiSearchSkill
\* The one GeminiSearch object of the program lives in the variable engine
\* (None until it is constructed); skill.searchEngine is null or refers to it.
\* an initialize that marks the skill initialized before it constructs
InitializeEager(sk, eng) ==
  IF sk.initialized THEN [skill |-> sk, engine |-> eng, error |-> None]
  ELSE IF sk.baseUrl.empty THEN
    [skill |-> sk, engine |-> eng,
     error |-> Some(NewError(<<S("GEMINI_BASE_URL environment variable is not set")>>))]
  ELSE IF sk.apiKey = "" THEN
    [skill |-> sk, engine |-> eng,
     error |-> Some(NewError(<<S("GEMINI_API_KEY environment variable is not set")>>))]
  ELSE LET made == GeminiSearchNew(sk.baseUrl, sk.apiKey,
                                   [model |-> sk.model, timeout |-> 0,
                                    retryAttempts |-> 0, retryDelay |-> 0])
       IN  IF IsSome(made.error)
             THEN [skill |-> [sk EXCEPT !.initialized = TRUE], engine |-> eng,
                   error |-> made.error]
           ELSE [skill |-> [sk EXCEPT !.searchEngine = "engine", !.initialized = TRUE],
                 engine |-> made.obj, error |-> None]

\* initialize() (index.js:41-66): [skill, engine, error]
Initialize(sk, eng) ==
  IF sk.initialized THEN [skill |-> sk, engine |-> eng, error |-> None]
  ELSE IF sk.baseUrl.empty THEN
    [skill |-> sk, engine |-> eng,
     error |-> Some(NewError(<<S("GEMINI_BASE_URL environment variable is not set")>>))]
  ELSE IF sk.apiKey = "" THEN
    [skill |-> sk, engine |-> eng,
     error |-> Some(NewError(<<S("GEMINI_API_KEY environment variable is not set")>>))]
  ELSE LET made == GeminiSearchNew(sk.baseUrl, sk.apiKey,
                                   [model |-> sk.model, timeout |-> 0,
                                    retryAttempts |-> 0, retryDelay |-> 0])
       IN  IF IsSome(made.error) THEN [skill |-> sk, engine |-> eng, error |-> made.error]
           ELSE [skill |-> [sk EXCEPT !.searchEngine = "engine", !.initialized = TRUE],
                 engine |-> made.obj, error |-> None]

\* execute(command, params) from the model override on (index.js:78-104),
\* run to its first suspension: [engine, call]
Dispatch(sk, eng, c) ==
  LET engine1 == IF Truthy(c.params.model) /\ sk.searchEngine # "null"
                 THEN Some(SetModel(Get(eng), c.params.model))
                 ELSE eng
  IN  [engine |-> engine1,
       call |-> IF c.command = "search" THEN SkillSearch(c, Get(engine1), c.params)
                ELSE IF c.command = "fetch" THEN SkillFetch(c, Get(engine1), c.params)
                ELSE Reject(c, NewError(<<S("Unknown command: "), S(c.command),
                                          S(". Available commands: search, fetch")>>))]

\* ------------------------------------------------------------- inputs
OverrideModel == "gemini-override"
EnvModel == "gemini-env"

HttpsUrl == [empty |-> FALSE, scheme |-> "https", host |-> TRUE, slashes |-> 0]
HttpUrlSlash == [empty |-> FALSE, scheme |-> "http", host |-> TRUE, slashes |-> 1]
FtpUrl == [empty |-> FALSE, scheme |-> "ftp", host |-> TRUE, slashes |-> 0]
MailtoUrl == [empty |-> FALSE, scheme |-> "mailto", host |-> FALSE, slashes |-> 0]
\* a text with no scheme, such as "example.com" or "not a url"
RelativeUrl == [empty |-> FALSE, scheme |-> "", host |-> FALSE, slashes |-> 0]
\* "https://" : a special scheme without a host
HostlessUrl == [empty |-> FALSE, scheme |-> "https", host |-> FALSE, slashes |-> 2]

StringQuery(ws, core) == [kind |-> "string", ws |-> ws, core |-> core, n |-> 0]
NumberQuery(n) == [kind |-> "number", ws |-> 0, core |-> 0, n |-> n]
Queries ==
  {NoQuery, StringQuery(0, 0), StringQuery(2, 0), StringQuery(2, 1),
   StringQuery(0, MaxQueryLen), StringQuery(2, MaxQueryLen), StringQuery(0, MaxQueryLen + 1),
   StringQuery(2, MaxQueryLen + 1), NumberQuery(5), NumberQuery(0)}

NumberArg(chars) == Some([kind |-> "number", chars |-> chars])
StringArg(chars) == Some([kind |-> "string", chars |-> chars])
NullArg == Some([kind |-> "null", chars |-> <<"n", "u", "l", "l">>])
NumResultsArgs ==
  {None, NullArg,
   NumberArg(<<"1">>), NumberArg(<<"5">>), NumberArg(<<"1", "0", "0">>),
   NumberArg(<<"0">>), NumberArg(<<"1", "0", "1">>), NumberArg(<<"-", "1">>),
   NumberArg(<<"1", "0", "0", ".", "5">>), NumberArg(<<"0", ".", "5">>),
   StringArg(<<"7">>), StringArg(<<" ", "7">>), StringArg(<<"a", "b", "c">>),
   StringArg(<<"5", "a">>), StringArg(<<>>)}

Urls == {NoUrl, RelativeUrl, HostlessUrl, HttpsUrl, MailtoUrl}

StringPrompt(len) == [kind |-> "string", len |-> len]
Prompts ==
  {NoPrompt, StringPrompt(0), StringPrompt(5), StringPrompt(MaxPromptLen),
   StringPrompt(MaxPromptLen + 1), [kind |-> "array", len |-> MaxPromptLen + 1]}

BaseSearch == [NoParams EXCEPT !.query = StringQuery(0, 1)]
BaseFetch == [NoParams EXCEPT !.url = HttpsUrl]

\* the calls a single caller makes: each parameter varied in turn
SearchParams ==
  {[BaseSearch EXCEPT !.query = q] : q \in Queries}
    \cup {[BaseSearch EXCEPT !.numResults = n] : n \in NumResultsArgs}
    \cup {[BaseSearch EXCEPT !.json = j, !.model = m] : j \in BOOLEAN, m \in {"", OverrideModel}}
FetchParams ==
  {[BaseFetch EXCEPT !.url = u] : u \in Urls}
    \cup {[BaseFetch EXCEPT !.prompt = q] : q \in Prompts}
    \cup {[BaseFetch EXCEPT !.model = m] : m \in {"", OverrideModel}}
Commands == {"search", "fetch", "delete"}

ParamsOf(command) ==
  IF command = "search" THEN SearchParams
  ELSE IF command = "fetch" THEN FetchParams
  ELSE {BaseSearch, BaseFetch}

\* --------------------------------------------------------- the backend
Response(status, statusText) == [status |-> status, statusText |-> statusText]
Responses ==
  {Response(200, "OK"), Response(400, "Bad Request"), Response(400, "network unreachable"),
   Response(401, "Unauthorized"), Response(429, "Too Many Requests"),
   Response(500, "Internal Server Error")}

ValidText ==
  <<"{", "results", ":", "[", "{", "title", ":", "T", "}", "]", ",", "summary", ":", "Y", "}">>
Texts ==
  {ValidText,
   <<"{", "results", ":", "[", "]", "}">>,
   <<"{", "summary", ":", "Y", "}">>,
   <<"{", "results", ":", "oops", "}">>,
   <<"{", "results", ":", "null", "}">>,
   <<"null">>, <<"5">>, <<"[", "]">>, <<"Y">>,
   <<"Here", "are", "the", "results">>,
   <<"fence", "{", "results", ":", "[", "]", "}", "fence">>,
   <<"{", "results", ":", "[">>,
   <<>>}

Bodies ==
  {None, DataWith(None), DataWith(Some(<<>>)), DataWith(Some(<<ChoiceNoMessage>>)),
   DataWith(Some(<<ChoiceWith(None)>>))}
    \cup {DataWith(Some(<<ChoiceWith(Some(t))>>)) : t \in Texts}

\* the kind of event a body is for an observer of the backend
BodyKind(data) ==
  IF ~IsSome(data) THEN "null_body"
  ELSE IF ~IsSome(Get(data).choices) THEN "no_choices"
  ELSE IF Get(Get(data).choices) = <<>> THEN "empty_choices"
  ELSE IF ~IsSome(Get(Get(data).choices)[1].message) THEN "no_message"
  ELSE IF ~IsSome(Get(Get(Get(data).choices)[1].message).content) THEN "no_content"
  ELSE "ok"

\* rejections of fetch(): the two the runtime gives for a failed connection,
\* and one for anything else
FetchErrors == {FetchFailedError, ConnResetError, TerminatedError}
FetchErrorKind(error) == IF error = TerminatedError THEN "other_error" ELSE "network"

\* rejections of response.json(): the body is cut short, or is no JSON text
\* (whose start, when the engine quotes it, may read "network error")
JsonErrors == {TerminatedError, JsonSyntaxError(""), JsonSyntaxError("network error")}
JsonErrorKind(error) == IF error = TerminatedError THEN "body_cut" ELSE "bad_json"

\* process.env at load time
EnvBaseUrls == {NoUrl, RelativeUrl, FtpUrl, HttpsUrl, HttpUrlSlash}
EnvApiKeys == {"", "key"}
EnvModels == {"", EnvModel}

\* -------------------------------------------------------------- state
\* skill: the GeminiSearchSkill object; engine: the GeminiSearch object;
\* calls: the invocations, one per caller; harness: who drives the program:
\*   "skill"   one caller of skill.execute, every input and backend answer;
\*   "engine"  one client that constructed GeminiSearch itself, with
\*             options, and calls setModel / search / fetch on it;
\*   "overlap" callers of skill.execute whose invocations overlap, a
\*             narrower backend;
\*   "inputs"  one client that constructed GeminiSearch from a base address
\*             of its choice and passes every kind of numResults, a
\*             narrower backend.
VARIABLES skill, engine, calls, harness
vars == <<skill, engine, calls, harness>>

\* the largest retryAttempts option a client passes
MaxRetryAttempts == 4

OptionRetryDelay == 250
OptionTimeout == 5000

\* options of new GeminiSearch(): 0 is the absent option
EngineOptions ==
  [model : {""}, timeout : {0}, retryAttempts : 0..MaxRetryAttempts,
   retryDelay : {0, OptionRetryDelay}]
    \cup [model : {""}, timeout : {OptionTimeout}, retryAttempts : {0}, retryDelay : {0}]

\* the largest number of "/" a configured base address ends with
MaxTrailingSlashes == 2
InputBaseUrls == {[HttpsUrl EXCEPT !.slashes = n] : n \in 0..MaxTrailingSlashes}

\* the numResults option a client of GeminiSearch.search passes
HarnessNumResults == IF harness = "inputs" THEN NumResultsArgs ELSE {None}

HarnessCommands == IF harness = "skill" THEN Commands ELSE {"fetch"}
HarnessParams(command) ==
  IF harness = "skill" THEN ParamsOf(command)
  ELSE {[BaseFetch EXCEPT !.model = m] : m \in {"", OverrideModel}}
HarnessResponses ==
  IF harness = "skill" THEN Responses
  ELSE IF harness = "engine" THEN Responses \ {Response(400, "network unreachable")}
  ELSE {Response(200, "OK"), Response(500, "Internal Server Error")}
HarnessFetchErrors ==
  IF harness \in {"skill", "engine"} THEN FetchErrors ELSE {FetchFailedError}
HarnessBodies ==
  IF harness = "skill" THEN Bodies
  ELSE IF harness = "engine" THEN
    {None, DataWith(None), DataWith(Some(<<ChoiceWith(None)>>)),
     DataWith(Some(<<ChoiceWith(Some(ValidText))>>))}
  ELSE {DataWith(Some(<<ChoiceWith(Some(<<"Y">>))>>))}
HarnessJsonErrors ==
  IF harness = "skill" THEN JsonErrors
  ELSE IF harness = "engine" THEN {TerminatedError, JsonSyntaxError("")}
  ELSE {TerminatedError}

\* new GeminiSearchSkill() (index.js:9-15)
NewSkill(baseUrl, apiKey, envModel) ==
  [baseUrl |-> baseUrl, apiKey |-> apiKey,
   model |-> IF Truthy(envModel) THEN envModel ELSE DefaultModel,
   searchEngine |-> "null", initialized |-> FALSE]

Init ==
  /\ harness = "skill"
  /\ \E b \in EnvBaseUrls, k \in EnvApiKeys, m \in EnvModels : skill = NewSkill(b, k, m)
  /\ engine = None
  /\ calls = [s \in {1} |-> IdleCall]

InitEngine ==
  /\ harness = "engine"
  /\ skill = NewSkill(NoUrl, "", "")
  /\ \E options \in EngineOptions : engine = GeminiSearchNew(HttpsUrl, "key", options).obj
  /\ calls = [s \in {1} |-> IdleCall]

\* the client keeps the base address it configured in skill.baseUrl
InitInputs ==
  /\ harness = "inputs"
  /\ \E b \in InputBaseUrls :
       /\ skill = NewSkill(b, "key", "")
       /\ engine = GeminiSearchNew(b, "key", [model |-> "", timeout |-> 0,
                                              retryAttempts |-> 0, retryDelay |-> 0]).obj
  /\ calls = [s \in {1} |-> IdleCall]

InitConc ==
  /\ harness = "overlap"
  /\ skill = NewSkill(HttpsUrl, "key", "")
  /\ engine = None
  /\ calls = [s \in Slots |-> IdleCall]

Engine == Get(engine)

\* ------------------------------------------------------------- actions
\* A caller calls execute(command, params): initialize() when needed, which
\* execute awaits, else straight on to the first suspension.
Execute(s, command, params) ==
  /\ calls[s].pc = "idle"
  /\ LET c == [IdleCall EXCEPT !.layer = "skill", !.command = command, !.params = params]
     IN  IF ~skill.initialized THEN
           LET r == Initialize(skill, engine)
           IN  /\ skill' = r.skill
               /\ engine' = r.engine
               /\ calls' = [calls EXCEPT ![s] = IF IsSome(r.error) THEN Reject(c, Get(r.error))
                                                ELSE [c EXCEPT !.pc = "init"]]
         ELSE
           LET d == Dispatch(skill, engine, c)
           IN  /\ engine' = d.engine
               /\ calls' = [calls EXCEPT ![s] = d.call]
               /\ UNCHANGED skill
  /\ UNCHANGED harness

\* A caller calls initialize() itself; what it throws goes to that caller.
InitializeCall ==
  /\ LET r == Initialize(skill, engine)
     IN  /\ skill' = r.skill
         /\ engine' = r.engine
  /\ UNCHANGED <<calls, harness>>

\* execute resumes after await this.initialize()
Resume(s) ==
  /\ calls[s].pc = "init"
  /\ LET d == Dispatch(skill, engine, calls[s])
     IN  /\ engine' = d.engine
         /\ calls' = [calls EXCEPT ![s] = d.call]
  /\ UNCHANGED <<skill, harness>>

\* the client calls engine.search(query, {numResults, json})
SearchCall(s, numResults, json) ==
  /\ calls[s].pc = "idle"
  /\ calls' = [calls EXCEPT ![s] =
       EngineSearch([IdleCall EXCEPT !.layer = "engine", !.command = "search",
                                     !.params = [BaseSearch EXCEPT !.numResults = numResults,
                                                                   !.json = json]],
                    Engine, numResults)]
  /\ UNCHANGED <<skill, engine, harness>>

\* the client calls engine.fetch(url, prompt)
FetchCall(s, url) ==
  /\ calls[s].pc = "idle"
  /\ calls' = [calls EXCEPT ![s] =
       EngineFetch([IdleCall EXCEPT !.layer = "engine", !.command = "fetch",
                                    !.params = [BaseFetch EXCEPT !.url = url]],
                   Engine, url)]
  /\ UNCHANGED <<skill, engine, harness>>

\* the client calls engine.setModel(model)
SetModelCall(model) ==
  /\ engine' = Some(SetModel(Engine, model))
  /\ engine' # engine
  /\ UNCHANGED <<skill, calls, harness>>

\* fetch resolves: the status line and headers of a response arrived;
\* clearTimeout, then the body is awaited (text() or json())
ResponseArrives(s, response) ==
  /\ calls[s].pc = "fetching"
  /\ calls' = [calls EXCEPT ![s] =
       [@ EXCEPT !.pc = IF ResponseOk(response.status) THEN "json" ELSE "text",
                 !.timer = -1, !.status = response.status,
                 !.statusText = response.statusText]]
  /\ UNCHANGED <<skill, engine, harness>>

\* fetch rejects
FetchRejects(s, error) ==
  /\ calls[s].pc = "fetching"
  /\ calls' = [calls EXCEPT ![s] =
       CatchBlock(Observe(@, Event(FetchErrorKind(error), 0, "")), Engine, error)]
  /\ UNCHANGED <<skill, engine, harness>>

\* the abort timer fires while fetch is pending: fetch rejects with AbortError
AbortFires(s) ==
  /\ calls[s].pc = "fetching"
  /\ calls[s].timer = 0
  /\ calls' = [calls EXCEPT ![s] =
       CatchBlock(Observe(@, TimeoutEvent(@.elapsed)), Engine, AbortError)]
  /\ UNCHANGED <<skill, engine, harness>>

\* response.text() of an error response resolves
ErrorBodyRead(s) ==
  /\ calls[s].pc = "text"
  /\ calls' = [calls EXCEPT ![s] =
       HandleErrorStatus(Observe(@, Event("http", @.status, @.statusText)), Engine)]
  /\ UNCHANGED <<skill, engine, harness>>

\* response.text() rejects: the body was cut short
ErrorBodyFails(s) ==
  /\ calls[s].pc = "text"
  /\ calls' = [calls EXCEPT ![s] =
       CatchBlock(Observe(@, Event("body_cut", @.status, "")), Engine, TerminatedError)]
  /\ UNCHANGED <<skill, engine, harness>>

\* response.json() resolves with data
JsonRead(s, data) ==
  /\ calls[s].pc = "json"
  /\ calls' = [calls EXCEPT ![s] =
       HandleData(Observe(@, Event(BodyKind(data), @.status, "")), Engine, data)]
  /\ UNCHANGED <<skill, engine, harness>>

\* response.json() rejects
JsonRejects(s, error) ==
  /\ calls[s].pc = "json"
  /\ calls' = [calls EXCEPT ![s] =
       CatchBlock(Observe(@, Event(JsonErrorKind(error), @.status, "")), Engine, error)]
  /\ UNCHANGED <<skill, engine, harness>>

\* the _delay timer fires: the pause ends and the next attempt is made
WakeUp(s) ==
  /\ calls[s].pc = "sleeping"
  /\ calls[s].timer = 0
  /\ calls' = [calls EXCEPT ![s] =
       CallGemini([@ EXCEPT !.gaps = Append(@, calls[s].elapsed)], Engine, @.attempt + 1)]
  /\ UNCHANGED <<skill, engine, harness>>

\* time passes until the next pending timer is due
Pending == {s \in DOMAIN calls : calls[s].timer >= 0}
AdvanceTime ==
  /\ Pending # {}
  /\ \A s \in Pending : calls[s].timer > 0
  /\ LET d == CHOOSE x \in {calls[s].timer : s \in Pending} :
                \A s \in Pending : x <= calls[s].timer
     IN  calls' = [s \in DOMAIN calls |->
           IF s \in Pending
           THEN [calls[s] EXCEPT !.timer = @ - d, !.elapsed = @ + d]
           ELSE calls[s]]
  /\ UNCHANGED <<skill, engine, harness>>

\* the caller has taken the settled result; it may call again
Collect(s) ==
  /\ calls[s].pc = "done"
  /\ calls' = [calls EXCEPT ![s] = IdleCall]
  /\ UNCHANGED <<skill, engine, harness>>

Next ==
  \/ \E s \in DOMAIN calls, command \in HarnessCommands :
       \E params \in HarnessParams(command) : Execute(s, command, params)
  \/ InitializeCall
  \/ \E s \in DOMAIN calls : Resume(s)
  \/ \E s \in DOMAIN calls, response \in HarnessResponses : ResponseArrives(s, response)
  \/ \E s \in DOMAIN calls, error \in HarnessFetchErrors : FetchRejects(s, error)
  \/ \E s \in DOMAIN calls : AbortFires(s)
  \/ \E s \in DOMAIN calls : ErrorBodyRead(s)
  \/ \E s \in DOMAIN calls : ErrorBodyFails(s)
  \/ \E s \in DOMAIN calls, data \in HarnessBodies : JsonRead(s, data)
  \/ \E s \in DOMAIN calls, error \in HarnessJsonErrors : JsonRejects(s, error)
  \/ \E s \in DOMAIN calls : WakeUp(s)
  \/ AdvanceTime
  \/ \E s \in DOMAIN calls : Collect(s)

\* callers that each make one call, which may overlap
NextConc ==
  \/ \E s \in DOMAIN calls, command \in HarnessCommands :
       \E params \in HarnessParams(command) : Execute(s, command, params)
  \/ \E s \in DOMAIN calls : Resume(s)
  \/ \E s \in DOMAIN calls, response \in HarnessResponses : ResponseArrives(s, response)
  \/ \E s \in DOMAIN calls, error \in HarnessFetchErrors : FetchRejects(s, error)
  \/ \E s \in DOMAIN calls : AbortFires(s)
  \/ \E s \in DOMAIN calls : ErrorBodyRead(s)
  \/ \E s \in DOMAIN calls : ErrorBodyFails(s)
  \/ \E s \in DOMAIN calls, data \in HarnessBodies : JsonRead(s, data)
  \/ \E s \in DOMAIN calls, error \in HarnessJsonErrors : JsonRejects(s, error)
  \/ \E s \in DOMAIN calls : WakeUp(s)
  \/ AdvanceTime

\* a client of GeminiSearch itself
NextEngine ==
  \/ \E s \in DOMAIN calls, json \in BOOLEAN :
       \E numResults \in HarnessNumResults : SearchCall(s, numResults, json)
  \/ \E s \in DOMAIN calls, url \in {HttpsUrl, RelativeUrl} : FetchCall(s, url)
  \/ \E model \in {"", OverrideModel} : SetModelCall(model)
  \/ \E s \in DOMAIN calls, response \in HarnessResponses : ResponseArrives(s, response)
  \/ \E s \in DOMAIN calls, error \in HarnessFetchErrors : FetchRejects(s, error)
  \/ \E s \in DOMAIN calls : AbortFires(s)
  \/ \E s \in DOMAIN calls : ErrorBodyRead(s)
  \/ \E s \in DOMAIN calls : ErrorBodyFails(s)
  \/ \E s \in DOMAIN calls, data \in HarnessBodies : JsonRead(s, data)
  \/ \E s \in DOMAIN calls, error \in HarnessJsonErrors : JsonRejects(s, error)
  \/ \E s \in DOMAIN calls : WakeUp(s)
  \/ AdvanceTime
  \/ \E s \in DOMAIN calls : Collect(s)

Spec == Init /\ [][Next]_vars
SpecEngine == InitEngine /\ [][NextEngine]_vars
SpecConc == InitConc /\ [][NextConc]_vars
SpecInputs == InitInputs /\ [][NextEngine]_vars
\* timers fire: time passes while a timer is pending, and a timer that
\* is due runs its callback.  Nothing is assumed of the backend, which may
\* stay silent at any point.
TimersFire ==
  /\ WF_vars(AdvanceTime)
  /\ \A s \in {1} : WF_vars(AbortFires(s)) /\ WF_vars(WakeUp(s))
SpecTimers == InitInputs /\ [][NextEngine]_vars /\ TimersFire

\* --------------------------------------------------------- properties
\* what an observer of the backend calls a transient failure: a request
\* that timed out, a failed connection, an HTTP 5xx or an HTTP 429 answer
Transient(ev) ==
  \/ ev.kind \in {"timeout", "network"}
  \/ (ev.kind = "http" /\ (ev.status = 429 \/ ev.status >= 500))

AllTransient(events, k) == \A i \in 1..k : Transient(events[i])

\* C1: k transient failures (timeout, network failure, 5xx, 429, in any mix)
\* with k below the attempt limit, then a valid 2xx answer: the call succeeds
\* with exactly k+1 requests, numbered 1..k+1; after failure n the call asks
\* for a pause of retryDelay * 2^(n-1), whatever the kind of failure, and
\* attempt n+1 goes out only when that much time has passed.
C1_RetryBackoffThenSuccess ==
  \A s \in DOMAIN calls :
    LET c == calls[s]
        n == Len(c.events)
    IN  /\ (n > 0 /\ n < Engine.retryAttempts /\ AllTransient(c.events, n)) =>
             /\ c.pc \in {"sleeping", "fetching", "text", "json"}
             /\ c.result.kind = "none"
             /\ Len(c.delays) = n
             /\ \A i \in 1..n : c.delays[i] = Engine.retryDelay * (2 ^ (i - 1))
             /\ Len(c.gaps) = IF c.pc = "sleeping" THEN n - 1 ELSE n
             /\ \A i \in 1..Len(c.gaps) : c.gaps[i] >= c.delays[i]
             /\ Len(c.reqs) = Len(c.gaps) + 1
        /\ (n > 0 /\ AllTransient(c.events, n - 1) /\ c.events[n].kind = "ok") =>
             /\ c.pc = "done"
             /\ c.result.kind = "value"
             /\ n <= Engine.retryAttempts
             /\ Len(c.reqs) = n
             /\ \A i \in 1..n : c.reqs[i].attempt = i

\* three failures of three kinds, then success on the fourth attempt
C1_Witness ==
  \E s \in DOMAIN calls :
    /\ calls[s].pc = "done"
    /\ calls[s].result.kind = "value"
    /\ Len(calls[s].events) = 4
    /\ calls[s].events[1].kind = "timeout"
    /\ calls[s].events[2].kind = "http" /\ calls[s].events[2].status = 429
    /\ calls[s].events[3].kind = "network"
    /\ calls[s].events[4].kind = "ok"
    /\ calls[s].delays = <<Engine.retryDelay, 2 * Engine.retryDelay, 4 * Engine.retryDelay>>

\* C2: an HTTP 401 answer, on whichever attempt it comes, ends the call: it
\* is the last thing the backend is asked (as many requests as events, so a
\* backend that always answers 401 sees one request), and the caller gets
\* the authentication error.  A 401 whose body is cut short ends the call
\* too, with the error of the broken body.
C2_AuthenticationFailureIsTerminal ==
  \A s \in DOMAIN calls :
    LET c == calls[s]
        n == Len(c.events)
    IN  \A i \in 1..n :
          c.events[i].status = 401 =>
            /\ i = n
            /\ Len(c.reqs) = n
            /\ c.pc = "done"
            /\ c.result.kind = "error"
            /\ c.events[i].kind = "http" =>
                  Get(c.result.error).message =
                    <<S(OperationPrefix(c.command)),
                      S("Authentication failed: Invalid API key")>>

\* a 401 on the third attempt, after a timeout and a 500
C2_Witness ==
  \E s \in DOMAIN calls :
    /\ calls[s].pc = "done"
    /\ Len(calls[s].events) = 3
    /\ calls[s].events[1].kind = "timeout"
    /\ calls[s].events[2].kind = "http" /\ calls[s].events[2].status >= 500
    /\ calls[s].events[3].kind = "http" /\ calls[s].events[3].status = 401
    /\ Len(calls[s].reqs) = 3
    /\ calls[s].result.kind = "error"

\* C3: when every attempt times out, each request is aborted when the
\* timeout has passed since it went out, no result is given before the last
\* attempt, exactly retryAttempts requests are made, and the call then fails
\* with the timeout error.
C3_AllAttemptsTimeOut ==
  \A s \in DOMAIN calls :
    LET c == calls[s]
        n == Len(c.events)
    IN  (n > 0 /\ \A i \in 1..n : c.events[i].kind = "timeout") =>
          /\ n <= Engine.retryAttempts
          /\ \A i \in 1..n : c.events[i].after = Engine.timeout
          /\ n < Engine.retryAttempts =>
                /\ c.result.kind = "none"
                /\ c.pc \in {"sleeping", "fetching", "text", "json"}
          /\ n = Engine.retryAttempts =>
                /\ c.pc = "done"
                /\ Len(c.reqs) = Engine.retryAttempts
                /\ c.result.kind = "error"
                /\ Get(c.result.error).message =
                     <<S(OperationPrefix(c.command)), S("Request timeout after "),
                       N(Engine.timeout), S("ms and "), N(Engine.retryAttempts),
                       S(" attempts")>>

\* four timeouts in a row with an attempt limit of four
C3_Witness ==
  \E s \in DOMAIN calls :
    /\ Engine.retryAttempts = 4
    /\ calls[s].pc = "done"
    /\ calls[s].result.kind = "error"
    /\ Len(calls[s].events) = 4
    /\ \A i \in 1..4 : calls[s].events[i].kind = "timeout"
    /\ Len(calls[s].reqs) = 4

\* The texts a backend may answer with, by what a reader of JSON makes of
\* them: an object with a results array, the value null, another JSON value
\* without a results array, or no JSON at all.
TextsWithResultsArray == {ValidText, <<"{", "results", ":", "[", "]", "}">>}
TextsOfNull == {<<"null">>}
TextsWithoutResultsArray ==
  {<<"{", "summary", ":", "Y", "}">>, <<"{", "results", ":", "oops", "}">>,
   <<"{", "results", ":", "null", "}">>, <<"5">>, <<"[", "]">>, <<"Y">>}
TextsNotJson ==
  {<<"Here", "are", "the", "results">>,
   <<"fence", "{", "results", ":", "[", "]", "}", "fence">>,
   <<"{", "results", ":", "[">>, <<>>}

\* a search with structured output to which the pipeline returned a text
DecodedCall(c) ==
  /\ c.pc = "done"
  /\ c.command = "search"
  /\ c.params.json
  /\ IsSome(c.returned)
  /\ IsSome(Get(c.returned))
\* the text, and what search made of it
ReturnedText(c) == Get(Get(c.returned))
Decoded(c) == IF c.layer = "skill" THEN GetProperty(c.result.value, "results") ELSE c.result.value
IsFallback(v, text) ==
  /\ GetProperty(v, "results") = JSArray(<<>>)
  /\ GetProperty(v, "summary") = JSString(text)

\* C4 as stated: whenever the text is no JSON, or parses to something without
\* a results array (null and non-objects included), search returns a value
\* with empty results, the text as summary and an error marker.
C4_FallbackHasErrorMarker ==
  \A s \in DOMAIN calls :
    LET c == calls[s]
    IN  (DecodedCall(c) /\ ReturnedText(c) \notin TextsWithResultsArray) =>
          /\ c.result.kind = "value"
          /\ IsFallback(Decoded(c), ReturnedText(c))
          /\ GetProperty(Decoded(c), "error") # JSUndefined

\* C4, amended: decoding never raises.  A text with a results array is
\* returned as parsed; any other text gives empty results and the text as
\* summary, with the error marker JSON_PARSE_ERROR when the text is no JSON or
\* is null, and with the parsed value under raw and no error marker when it
\* is another JSON value without a results array.
C4_DecodeFallback ==
  \A s \in DOMAIN calls :
    LET c == calls[s]
        text == ReturnedText(c)
        v == Decoded(c)
    IN  DecodedCall(c) =>
          /\ c.result.kind = "value"
          /\ text \in TextsWithResultsArray \cup TextsOfNull \cup TextsWithoutResultsArray
                        \cup TextsNotJson
          /\ text \in TextsWithResultsArray =>
                /\ IsArray(GetProperty(v, "results"))
                /\ GetProperty(v, "error") = JSUndefined
                /\ GetProperty(v, "raw") = JSUndefined
                /\ text = ValidText =>
                      /\ Len(GetProperty(v, "results").elems) = 1
                      /\ GetProperty(v, "summary") = JSString(<<"Y">>)
          /\ text \in TextsNotJson \cup TextsOfNull =>
                /\ IsFallback(v, text)
                /\ GetProperty(v, "error") = JSString(<<"JSON_PARSE_ERROR">>)
                /\ GetProperty(v, "raw") = JSUndefined
          /\ text \in TextsWithoutResultsArray =>
                /\ IsFallback(v, text)
                /\ GetProperty(v, "error") = JSUndefined
                /\ GetProperty(v, "raw") # JSUndefined

\* the backend answered {"results": "oops"}: a fallback without error marker
C4_Witness ==
  \E s \in DOMAIN calls :
    /\ DecodedCall(calls[s])
    /\ ReturnedText(calls[s]) = <<"{", "results", ":", "oops", "}">>
    /\ calls[s].result.kind = "value"
    /\ IsFallback(Decoded(calls[s]), ReturnedText(calls[s]))
    /\ GetProperty(Decoded(calls[s]), "error") = JSUndefined

\* what an observer calls a 2xx answer of unexpected shape: a body that is
\* no JSON, is null, has no choices, no first choice, no message in it, or
\* a message without content
MalformedSuccess(ev) ==
  /\ ResponseOk(ev.status)
  /\ ev.kind \in {"bad_json", "null_body", "no_choices", "empty_choices", "no_message",
                  "no_content"}

\* C5 as stated: a 2xx answer of unexpected shape ends the call with an
\* error and is never retried, and a call returns a value only when the
\* last answer carried content.
C5_MalformedSuccessIsTerminal ==
  \A s \in DOMAIN calls :
    LET c == calls[s]
        n == Len(c.events)
    IN  /\ \A i \in 1..n :
              MalformedSuccess(c.events[i]) =>
                /\ i = n
                /\ Len(c.reqs) = n
                /\ c.pc = "done"
                /\ c.result.kind = "error"
        /\ c.result.kind = "value" => (n > 0 /\ c.events[n].kind = "ok")

\* A numResults argument as a reader of the contract sees it: a numeral is
\* optional white space, an optional minus sign, digits, and optionally a
\* point and more digits; its value lies in [1, 100] when it is not
\* negative, its integer part is at least 1, and it is below 100 or exactly
\* 100.
NumeralBody(chars) ==
  LET t == SkipSpaces(chars)
  IN  IF t # <<>> /\ Head(t) = "-" THEN Tail(t) ELSE t
IsNumeral(chars) ==
  LET u == NumeralBody(chars)
  IN  /\ u # <<>>
      /\ \A i \in 1..Len(u) : IsDigit(u[i]) \/ u[i] = "."
      /\ Cardinality({i \in 1..Len(u) : u[i] = "."}) <= 1
      /\ u[1] # "." /\ u[Len(u)] # "."
RECURSIVE DecimalValue(_)
DecimalValue(ds) ==
  IF ds = <<>> THEN 0 ELSE 10 * DecimalValue(SubSeq(ds, 1, Len(ds) - 1)) + DigitVal(ds[Len(ds)])
NumeralInRange(chars) ==
  LET t == SkipSpaces(chars)
      u == NumeralBody(chars)
      points == {i \in 1..Len(u) : u[i] = "."}
      point == IF points = {} THEN Len(u) + 1 ELSE CHOOSE i \in points : TRUE
      whole == DecimalValue(SubSeq(u, 1, point - 1))
      fraction == SubSeq(u, point + 1, Len(u))
  IN  /\ Head(t) # "-"
      /\ whole >= MinNumResults
      /\ \/ whole < MaxNumResults
         \/ (whole = MaxNumResults /\ \A i \in 1..Len(fraction) : fraction[i] = "0")
InvalidNumResults(arg) ==
  /\ IsSome(arg)
  /\ \/ Get(arg).kind = "null"
     \/ ~IsNumeral(Get(arg).chars)
     \/ ~NumeralInRange(Get(arg).chars)

\* the calls the contract calls invalid
InvalidCall(command, params) ==
  \/ command \notin {"search", "fetch"}
  \/ /\ command = "fetch"
     /\ \/ params.url.empty
        \/ ~URLParses(params.url)
        \/ (params.prompt.kind = "string" /\ params.prompt.len > MaxPromptLen)
  \/ /\ command = "search"
     /\ \/ params.query.kind # "string"
        \/ params.query.core = 0
        \/ params.query.core > MaxQueryLen
        \/ InvalidNumResults(params.numResults)

\* C6 as stated: an invalid call through execute never sends a request, and
\* once execute has dispatched it the call has failed.
C6_InvalidInputNeverSent ==
  \A s \in DOMAIN calls :
    LET c == calls[s]
    IN  (c.layer = "skill" /\ InvalidCall(c.command, c.params)) =>
          /\ c.reqs = <<>>
          /\ c.pc \in {"init", "done"}
          /\ c.pc = "done" => c.result.kind = "error"

\* C7 as stated: with invocations that overlap on one skill, every request
\* of an invocation carries the model of its first request, and an
\* invocation that names a model sends that model.
C7_RequestsKeepTheirModel ==
  \A s \in DOMAIN calls :
    LET c == calls[s]
    IN  \A i \in 1..Len(c.reqs) :
          /\ c.reqs[i].model = c.reqs[1].model
          /\ Truthy(c.params.model) => c.reqs[i].model = c.params.model

\* C8 as stated: a model named in one call holds for that call only; a
\* call that names no model sends the configured default model, whatever
\* earlier calls named.
C8_OverrideIsTemporary ==
  \A s \in DOMAIN calls :
    LET c == calls[s]
    IN  (c.layer = "skill" /\ ~Truthy(c.params.model)) =>
          \A i \in 1..Len(c.reqs) : c.reqs[i].model = skill.model

\* a call that used up its attempts on transient failures
Exhausted(c) ==
  /\ c.pc = "done"
  /\ Len(c.events) = Engine.retryAttempts
  /\ AllTransient(c.events, Len(c.events))
\* the message of the error the pipeline raised, without the prefix that
\* search / fetch put before it
PipelineMessage(c) == Tail(Get(c.result.error).message)
\* a message names the attempt count when the count is one of its pieces
NamesAttemptCount(message) ==
  \E i \in 1..Len(message) : "n" \in DOMAIN message[i] /\ message[i].n = Engine.retryAttempts

\* C9 as stated: whichever transient failure used up the last attempt, the
\* error names the attempt count.
C9_ExhaustionNamesAttemptCount ==
  \A s \in DOMAIN calls :
    Exhausted(calls[s]) =>
      /\ calls[s].result.kind = "error"
      /\ NamesAttemptCount(PipelineMessage(calls[s]))

\* C9, amended: the error after the last attempt names the cause of the
\* last failure; it names the attempt count only after a timeout.  A 429
\* gives 'Rate limit exceeded: Too many requests', a 5xx gives 'API request
\* failed with status <status>: <status text>', a network failure gives the
\* error fetch rejected with.
C9_ExhaustionNamesCause ==
  \A s \in DOMAIN calls :
    LET c == calls[s]
        last == c.events[Len(c.events)]
        message == PipelineMessage(c)
    IN  Exhausted(c) =>
          /\ c.result.kind = "error"
          /\ Len(c.reqs) = Engine.retryAttempts
          /\ last.kind = "timeout" =>
                /\ message = <<S("Request timeout after "), N(Engine.timeout), S("ms and "),
                               N(Engine.retryAttempts), S(" attempts")>>
                /\ NamesAttemptCount(message)
          /\ (last.kind = "http" /\ last.status = 429) =>
                /\ message = <<S("Rate limit exceeded: Too many requests")>>
                /\ ~NamesAttemptCount(message)
          /\ (last.kind = "http" /\ last.status >= 500) =>
                /\ message = <<S("API request failed with status "), N(last.status),
                               S(": "), S(last.text)>>
                /\ ~NamesAttemptCount(message)
          /\ last.kind = "network" =>
                /\ message \in {FetchFailedError.message, ConnResetError.message}
                /\ ~NamesAttemptCount(message)

\* three answers 429 with the default limit of three attempts
C9_Witness ==
  \E s \in DOMAIN calls :
    /\ Exhausted(calls[s])
    /\ Engine.retryAttempts = DefaultRetryAttempts
    /\ \A i \in 1..DefaultRetryAttempts :
          calls[s].events[i].kind = "http" /\ calls[s].events[i].status = 429
    /\ calls[s].result.kind = "error"
    /\ PipelineMessage(calls[s]) = <<S("Rate limit exceeded: Too many requests")>>

\* C10 as stated: a call whose last answer was a failure ends in an error,
\* never in a value, and every error of search or fetch starts with the
\* name of the operation, followed by the cause.
C10_FailuresRaisedWithOperationName ==
  \A s \in DOMAIN calls :
    LET c == calls[s]
        n == Len(c.events)
    IN  c.pc = "done" =>
          /\ c.result.kind \in {"error", "value"}
          /\ c.result.kind = "error" =>
                /\ Len(Get(c.result.error).message) >= 2
                /\ Head(Get(c.result.error).message) =
                     S(IF c.command = "search" THEN "Search failed: " ELSE "Fetch failed: ")
          /\ (n > 0 /\ c.events[n].kind # "ok") => c.result.kind = "error"

\* the count a reader of the contract expects in the request: 10 for an
\* absent or non-numeric numResults, the nearest bound for a number outside
\* [1, 100], the number itself (its integer part) otherwise
ExpectedNumResults(arg) ==
  IF ~IsSome(arg) THEN DefaultNumResults
  ELSE IF Get(arg).kind = "null" \/ ~IsNumeral(Get(arg).chars) THEN DefaultNumResults
  ELSE LET t == SkipSpaces(Get(arg).chars)
           u == NumeralBody(Get(arg).chars)
           points == {i \in 1..Len(u) : u[i] = "."}
           point == IF points = {} THEN Len(u) + 1 ELSE CHOOSE i \in points : TRUE
           whole == DecimalValue(SubSeq(u, 1, point - 1))
       IN  IF Head(t) = "-" \/ whole < MinNumResults THEN MinNumResults
           ELSE IF whole >= MaxNumResults THEN MaxNumResults
           ELSE whole

\* C11 as stated: the count in every request of GeminiSearch.search is in
\* [1, 100]; it is 1 for a number below 1, 100 for a number above 100, the
\* number itself when in range, and 10 for a non-numeric or absent value.
C11_NumResultsClamped ==
  \A s \in DOMAIN calls :
    LET c == calls[s]
    IN  (c.layer = "engine" /\ c.command = "search") =>
          \A i \in 1..Len(c.reqs) :
            /\ c.reqs[i].num >= MinNumResults
            /\ c.reqs[i].num <= MaxNumResults
            /\ c.reqs[i].num = ExpectedNumResults(c.params.numResults)

\* C12 as stated: the base address of every request is the configured one
\* without its trailing slashes, whatever their number, and normalizing it
\* once more changes nothing.
C12_BaseUrlNormalizationIdempotent ==
  \A s \in DOMAIN calls :
    \A i \in 1..Len(calls[s].reqs) :
      LET target == calls[s].reqs[i].target
      IN  /\ target = [skill.baseUrl EXCEPT !.slashes = 0]
          /\ Get(GeminiSearchNew(target, "key",
                                 [model |-> "", timeout |-> 0, retryAttempts |-> 0,
                                  retryDelay |-> 0]).obj).baseUrl = target

\* a search to which the pipeline returned a text
AnsweredSearch(c) ==
  /\ c.pc = "done"
  /\ c.command = "search"
  /\ IsSome(c.returned)
  /\ IsSome(Get(c.returned))

\* C13: when no fallback applies search hands on what the backend gave.
\* With structured output, a text that is an object with a results array
\* comes back as that object, with the same members in the same order and
\* nothing else; without structured output the text comes back as it is.
C13_PayloadUnaltered ==
  \A s \in DOMAIN calls :
    LET c == calls[s]
        text == ReturnedText(c)
    IN  AnsweredSearch(c) =>
          /\ c.result.kind = "value"
          /\ ~c.params.json => Decoded(c) = JSString(text)
          /\ (c.params.json /\ text = ValidText) =>
                Decoded(c) =
                  JSObject(<< <<"results",
                                JSArray(<<JSObject(<< <<"title", JSString(<<"T">>)>> >>)>>)>>,
                              <<"summary", JSString(<<"Y">>)>> >>)
          /\ (c.params.json /\ text = <<"{", "results", ":", "[", "]", "}">>) =>
                Decoded(c) = JSObject(<< <<"results", JSArray(<<>>)>> >>)

\* a structured search answered with an object that has results only
C13_Witness ==
  \E s \in DOMAIN calls :
    /\ AnsweredSearch(calls[s])
    /\ calls[s].params.json
    /\ ReturnedText(calls[s]) = <<"{", "results", ":", "[", "]", "}">>
    /\ Decoded(calls[s]) = JSObject(<< <<"results", JSArray(<<>>)>> >>)

\* C14: whatever the backend does, an invocation of callGemini sends at
\* least one and at most retryAttempts requests, numbered 1, 2, ... without
\* gap or repeat; each failure is handled once, by the attempt it happened
\* on: it leads to at most one pause, and once the call has settled there is
\* one request per backend outcome and none after the error.
C14_AttemptsBoundedAndNumbered ==
  \A s \in DOMAIN calls :
    LET c == calls[s]
    IN  c.attempt >= 1 =>
          /\ Len(c.reqs) >= 1
          /\ Len(c.reqs) <= Engine.retryAttempts
          /\ Len(c.reqs) = c.attempt
          /\ \A i \in 1..Len(c.reqs) : c.reqs[i].attempt = i
          /\ Len(c.delays) <= Len(c.events)
          /\ Len(c.delays) \in {Len(c.reqs) - 1, Len(c.reqs)}
          /\ c.pc = "done" =>
                /\ Len(c.events) = Len(c.reqs)
                /\ Len(c.delays) = Len(c.reqs) - 1

\* a call that failed on its fourth request after a 429, a timeout and a
\* network failure, with a network failure again
C14_Witness ==
  \E s \in DOMAIN calls :
    /\ calls[s].pc = "done"
    /\ calls[s].result.kind = "error"
    /\ Engine.retryAttempts = 4
    /\ Len(calls[s].reqs) = 4
    /\ calls[s].events[1].kind = "http" /\ calls[s].events[1].status = 429
    /\ calls[s].events[2].kind = "timeout"
    /\ calls[s].events[3].kind = "network"
    /\ calls[s].events[4].kind = "network"

\* C15 as stated: with timers that fire, every request that went out is
\* followed by the completion of its call, whatever the backend does or
\* fails to do, also after the headers of an answer have arrived.
C15_EveryCallCompletes ==
  \A s \in {1} : (calls[s].pc = "fetching") ~> (calls[s].pc = "done")

\* a configuration the contract calls invalid, and the error it expects
BadConfig(sk) ==
  \/ sk.baseUrl.empty
  \/ sk.apiKey = ""
  \/ ~URLParses(sk.baseUrl)
  \/ sk.baseUrl.scheme \notin {"http", "https"}
ConfigErrorMessage(sk) ==
  IF sk.baseUrl.empty THEN <<S("GEMINI_BASE_URL environment variable is not set")>>
  ELSE IF sk.apiKey = "" THEN <<S("GEMINI_API_KEY environment variable is not set")>>
  ELSE IF ~URLParses(sk.baseUrl) THEN <<S("Invalid GEMINI_BASE_URL format: "), S("Invalid URL")>>
  ELSE <<S("Invalid GEMINI_BASE_URL format: "), S("Invalid protocol: must be http or https")>>

\* C16: the skill is initialized exactly when it holds a fully constructed
\* engine.  With a base address or credential that is missing, unparseable
\* or not http/https the skill never becomes initialized, no engine exists,
\* and every execute fails with the one configuration error and no request.
\* initialize on an initialized skill changes neither skill nor engine.
C16_FailFastConstruction ==
  /\ skill.initialized =>
        /\ IsSome(engine)
        /\ skill.searchEngine = "engine"
        /\ ~BadConfig(skill)
        /\ Engine.apiKey = skill.apiKey
        /\ Engine.baseUrl.scheme = skill.baseUrl.scheme
        /\ Engine.model # ""
        /\ Engine.timeout = DefaultTimeout
        /\ Engine.retryAttempts = DefaultRetryAttempts
        /\ Engine.retryDelay = DefaultRetryDelay
        /\ Initialize(skill, engine) = [skill |-> skill, engine |-> engine, error |-> None]
  /\ ~skill.initialized =>
        /\ engine = None
        /\ skill.searchEngine = "null"
  /\ BadConfig(skill) =>
        /\ ~skill.initialized
        /\ engine = None
        /\ \A s \in DOMAIN calls :
              /\ calls[s].pc \in {"idle", "done"}
              /\ calls[s].reqs = <<>>
              /\ calls[s].pc = "done" =>
                    /\ calls[s].result.kind = "error"
                    /\ Get(calls[s].result.error).message = ConfigErrorMessage(skill)

\* an execute that failed on a base address with the scheme ftp
C16_Witness ==
  \E s \in DOMAIN calls :
    /\ skill.baseUrl = FtpUrl
    /\ skill.apiKey # ""
    /\ calls[s].pc = "done"
    /\ calls[s].result.kind = "error"
    /\ Get(calls[s].result.error).message =
         <<S("Invalid GEMINI_BASE_URL format: "), S("Invalid protocol: must be http or https")>>
    /\ ~skill.initialized
    /\ engine = None

====
